---- MODULE Spec2Model ----
(***************************************************************************)
(* Model of the K12 SheerID verifier (src/k12/sheerid_verifier.py) and of  *)
(* the id parsing its command line does (src/main.py).                     *)
(*                                                                         *)
(* Python strings are tuples of one-character strings, so that lower(),    *)
(* startswith(), `in` and the regular expressions are computed and not     *)
(* assumed.  Python's None is the one-element tuple None.                  *)
(***************************************************************************)
EXTENDS Integers, Sequences, FiniteSets, TLC

VARIABLES
    pc,               \* position of the control flow: the request verify() issues next
    input,            \* parse_verification_id: the argument `url`
    output,           \* parse_verification_id: the value returned
    verification_id,  \* self.verification_id
    resend_email,     \* verify(): the argument resend_email
    loc,              \* verify(): the local variables that are live across requests
    result,           \* verify(): the dict returned
    raised,           \* history: text of the exception that ended the run
    sent,             \* history: number of requests issued, by request site
    heard,            \* history: what the transport answered
    script,           \* history: the test scenarios the responses so far follow
    canonical         \* history: which response became the canonical step-2 result

None == <<"<None>">>

(***************************************************************************)
(* String helpers (Python built-ins the source uses)                       *)
(***************************************************************************)
UpperChars ==
    <<"A","B","C","D","E","F","G","H","I","J","K","L","M",
      "N","O","P","Q","R","S","T","U","V","W","X","Y","Z">>
LowerChars ==
    <<"a","b","c","d","e","f","g","h","i","j","k","l","m",
      "n","o","p","q","r","s","t","u","v","w","x","y","z">>

LowerChar(c) ==
    IF \E i \in 1..26 : UpperChars[i] = c
    THEN LowerChars[CHOOSE i \in 1..26 : UpperChars[i] = c]
    ELSE c

\* str.lower()
Lower(s) == [i \in 1..Len(s) |-> LowerChar(s[i])]

\* needle in hay
Contains(needle, hay) ==
    \E i \in 0..(Len(hay) - Len(needle)) :
        SubSeq(hay, i + 1, i + Len(needle)) = needle

\* s.startswith(p)
StartsWith(s, p) ==
    /\ Len(p) <= Len(s)
    /\ SubSeq(s, 1, Len(p)) = p

(***************************************************************************)
(* parse_verification_id                                                   *)
(***************************************************************************)
HexChars ==
    {"0","1","2","3","4","5","6","7","8","9",
     "a","b","c","d","e","f","A","B","C","D","E","F"}

\* [a-f0-9] under re.IGNORECASE
IsHex(c) == c \in HexChars

\* the literal of the first pattern, lower-cased (re.IGNORECASE)
K_verificationId ==
    <<"v","e","r","i","f","i","c","a","t","i","o","n","i","d","=">>

\* the repetition count {24} of the fallback pattern
TokenLen == 24

RECURSIVE HexRun(_, _)
\* number of consecutive [a-f0-9] characters of s from position i on
HexRun(s, i) ==
    IF i > Len(s) \/ ~IsHex(s[i]) THEN 0 ELSE 1 + HexRun(s, i + 1)

\* verificationId=([a-f0-9]+) matches at position i
QueryMatchAt(s, i) ==
    /\ i + Len(K_verificationId) <= Len(s)
    /\ Lower(SubSeq(s, i, i + Len(K_verificationId) - 1)) = K_verificationId
    /\ HexRun(s, i + Len(K_verificationId)) >= 1

\* re.search(r'verificationId=([a-f0-9]+)', url, re.IGNORECASE): group 1 of the
\* leftmost match, the greedy run of hex characters after the literal
QueryMatch(s) ==
    IF \E i \in 1..Len(s) : QueryMatchAt(s, i)
    THEN LET i == CHOOSE k \in 1..Len(s) :
                    /\ QueryMatchAt(s, k)
                    /\ \A j \in 1..(k - 1) : ~QueryMatchAt(s, j)
             b == i + Len(K_verificationId)
         IN  SubSeq(s, b, b + HexRun(s, b) - 1)
    ELSE None

\* re.search(r'([a-f0-9]{24})', url, re.IGNORECASE): the leftmost 24 consecutive
\* hex characters
FallbackMatch(s) ==
    IF \E i \in 1..Len(s) : HexRun(s, i) >= TokenLen
    THEN LET i == CHOOSE k \in 1..Len(s) :
                    /\ HexRun(s, k) >= TokenLen
                    /\ \A j \in 1..(k - 1) : HexRun(s, j) < TokenLen
         IN  SubSeq(s, i, i + TokenLen - 1)
    ELSE None

parse_verification_id(url) ==
    IF QueryMatch(url) # None THEN QueryMatch(url) ELSE FallbackMatch(url)

(***************************************************************************)
(* Inputs of parse_verification_id: an optional prefix, a run of hex       *)
(* characters, an optional verificationId= literal (in either case), a     *)
(* second run of hex characters and an optional suffix.                    *)
(***************************************************************************)
MaxRun == 26

HexCycle == <<"a","1","F","0","c","9","B">>

\* a run of n hex characters, no two neighbours alike
HexString(n) == [i \in 1..n |-> HexCycle[((i - 1) % Len(HexCycle)) + 1]]

UrlPrefixes == { <<>>, <<"h","t","t","p",":","/","/","x","/","?">> }
UrlKeys ==
    { <<>>,
      <<"&">>,
      <<"v","e","r","i","f","i","c","a","t","i","o","n","I","d","=">>,
      <<"V","E","R","I","F","I","C","A","T","I","O","N","I","D","=">> }
UrlSuffixes == { <<>>, <<"&","x","=","1">> }

ParseInputs ==
    { p \o HexString(n1) \o k \o HexString(n2) \o x :
        p \in UrlPrefixes, n1 \in {0, 3, TokenLen - 1, TokenLen, MaxRun},
        k \in UrlKeys, n2 \in 0..MaxRun, x \in UrlSuffixes }

(***************************************************************************)
(* String constants of the source and of the remote service                *)
(***************************************************************************)
S_sso ==
    <<"s","s","o">>
S_collectTeacherPersonalInfo ==
    <<"c","o","l","l","e","c","t","T","e","a","c","h","e","r","P","e","r","s","o","n","a","l","I","n","f","o">>
S_docUpload ==
    <<"d","o","c","U","p","l","o","a","d">>
S_emailLoop ==
    <<"e","m","a","i","l","L","o","o","p">>
S_error ==
    <<"e","r","r","o","r">>
S_pending ==
    <<"p","e","n","d","i","n","g">>
S_success ==
    <<"s","u","c","c","e","s","s">>
S_collectMilitaryStatus ==
    <<"c","o","l","l","e","c","t","M","i","l","i","t","a","r","y","S","t","a","t","u","s">>
S_collectInactiveMilitaryPersonalInfo ==
    <<"c","o","l","l","e","c","t","I","n","a","c","t","i","v","e","M","i","l","i","t","a","r","y","P","e","r","s","o","n","a","l","I","n","f","o">>
S_collectActiveMilitaryPersonalInfo ==
    <<"c","o","l","l","e","c","t","A","c","t","i","v","e","M","i","l","i","t","a","r","y","P","e","r","s","o","n","a","l","I","n","f","o">>
S_military ==
    <<"m","i","l","i","t","a","r","y">>
S_teacher ==
    <<"t","e","a","c","h","e","r">>
S_initial ==
    <<"i","n","i","t","i","a","l">>
K_invalidstep ==
    <<"i","n","v","a","l","i","d","s","t","e","p">>
K_localhost ==
    <<"l","o","c","a","l","h","o","s","t">>
K_cannot_perform_step ==
    <<"c","a","n","n","o","t"," ","p","e","r","f","o","r","m"," ","s","t","e","p">>
K_collectmilitary ==
    <<"c","o","l","l","e","c","t","m","i","l","i","t","a","r","y">>
K_collectinactivemilitary ==
    <<"c","o","l","l","e","c","t","i","n","a","c","t","i","v","e","m","i","l","i","t","a","r","y">>
K_collectactivemilitary ==
    <<"c","o","l","l","e","c","t","a","c","t","i","v","e","m","i","l","i","t","a","r","y">>
K_docupload ==
    <<"d","o","c","u","p","l","o","a","d">>
K_doc_upload ==
    <<"d","o","c","_","u","p","l","o","a","d">>
K_emailloop ==
    <<"e","m","a","i","l","l","o","o","p">>
E_INVALID_STEP ==
    <<"I","N","V","A","L","I","D","_","S","T","E","P">>
E_invalidStep ==
    <<"i","n","v","a","l","i","d","S","t","e","p">>
E_invalidBirthDate ==
    <<"i","n","v","a","l","i","d","B","i","r","t","h","D","a","t","e">>
E_Unknown_error ==
    <<"U","n","k","n","o","w","n"," ","e","r","r","o","r">>
Sys_cannot_perform ==
    <<"C","a","n","n","o","t"," ","p","e","r","f","o","r","m"," ","s","t","e","p">>
Sys_localhost ==
    <<"B","l","o","c","k","e","d",":"," ","l","o","c","a","l","h","o","s","t">>
Url_submission ==
    <<"h","t","t","p","s",":","/","/","s","/","s","u","b","m","i","t">>
Url_pdf ==
    <<"h","t","t","p","s",":","/","/","s","3","/","p","d","f">>
Url_png ==
    <<"h","t","t","p","s",":","/","/","s","3","/","p","n","g">>
Url_redirect ==
    <<"h","t","t","p","s",":","/","/","r","/","d","o","n","e">>
M_AttributeError ==
    <<"'","s","t","r","'"," ","o","b","j","e","c","t"," ","h","a","s"," ","n","o"," ","a","t","t","r","i","b","u","t","e"," ","'","g","e","t","'">>
M_KeyError_uploadUrl ==
    <<"'","u","p","l","o","a","d","U","r","l","'">>
M_TransportError ==
    <<"C","o","n","n","e","c","t","E","r","r","o","r">>
M_PdfGeneration ==
    <<"P","D","F"," ","g","e","n","e","r","a","t","i","o","n"," ","f","a","i","l","e","d">>
\* first sentence of the RuntimeError of generate_teacher_png
M_Playwright ==
    <<"P","l","a","y","w","r","i","g","h","t"," ","i","s"," ","r","e","q","u","i","r","e","d"," ","f","o","r"," ","P","N","G"," ","g","e","n","e","r","a","t","i","o","n",".">>
M_Step2FailedMilitary ==
    <<"S","t","e","p"," ","2"," ","F","a","i","l","e","d"," ","a","f","t","e","r"," ","m","i","l","i","t","a","r","y"," ","a","t","t","e","m","p","t","s"," ","(","l","a","s","t",":"," ">>
M_Step2FailedStatus ==
    <<"S","t","e","p"," ","2"," ","F","a","i","l","e","d"," ","(","S","t","a","t","u","s"," ">>
M_Step2Error ==
    <<"S","t","e","p"," ","2"," ","E","r","r","o","r",":"," ">>
M_EmailLoopNoResend ==
    <<"V","e","r","i","f","i","c","a","t","i","o","n"," ","r","e","q","u","i","r","e","s"," ","e","m","a","i","l"," ","c","o","n","f","i","r","m","a","t","i","o","n"," ","(","e","m","a","i","l","L","o","o","p",")","."," ","U","s","e"," ","-","-","r","e","s","e","n","d","-","e","m","a","i","l"," ","t","o"," ","r","e","s","e","n","d"," ","a","n","d"," ","w","a","i","t"," ","o","r"," ","c","o","n","f","i","r","m"," ","m","a","n","u","a","l","l","y"," ","v","i","a"," ","i","n","b","o","x",".">>
M_EmailLoopDisallowed ==
    <<"V","e","r","i","f","i","c","a","t","i","o","n"," ","i","s"," ","i","n"," ","e","m","a","i","l","L","o","o","p"," ","b","u","t"," ","s","e","r","v","e","r"," ","d","i","s","a","l","l","o","w","s"," ","r","e","s","e","n","d","i","n","g"," ","t","h","e"," ","e","m","a","i","l","."," ","P","l","e","a","s","e"," ","c","o","n","f","i","r","m"," ","t","h","e"," ","e","m","a","i","l"," ","m","a","n","u","a","l","l","y",".">>
M_EmailLoopNoUrl ==
    <<"E","m","a","i","l"," ","l","o","o","p"," ","s","u","b","m","i","s","s","i","o","n"," ","U","R","L"," ","i","s"," ","m","i","s","s","i","n","g",";"," ","c","a","n","n","o","t"," ","r","e","s","e","n","d",".">>
M_ResendFailed ==
    <<"F","a","i","l","e","d"," ","t","o"," ","P","O","S","T"," ","r","e","s","e","n","d"," ","e","m","a","i","l",":"," ">>
M_EmailTimeout ==
    <<"T","i","m","e","o","u","t"," ","w","a","i","t","i","n","g"," ","f","o","r"," ","d","o","c","U","p","l","o","a","d"," ","a","f","t","e","r"," ","r","e","s","e","n","d","i","n","g"," ","e","m","a","i","l","."," ","P","l","e","a","s","e"," ","c","h","e","c","k"," ","e","m","a","i","l"," ","i","n","b","o","x"," ","o","r"," ","t","r","y"," ","a","g","a","i","n"," ","l","a","t","e","r",".">>
M_UploadUrls ==
    <<"F","a","i","l","e","d"," ","t","o"," ","r","e","t","r","i","e","v","e"," ","U","p","l","o","a","d"," ","U","R","L","s">>
M_PdfUpload ==
    <<"P","D","F"," ","U","p","l","o","a","d"," ","F","a","i","l","e","d">>
M_PngUpload ==
    <<"P","N","G"," ","U","p","l","o","a","d"," ","F","a","i","l","e","d">>
M_Pending ==
    <<"D","o","c","u","m","e","n","t","s"," ","s","u","b","m","i","t","t","e","d",","," ","p","e","n","d","i","n","g"," ","r","e","v","i","e","w">>
W_Upload_URLs ==
    <<"U","p","l","o","a","d"," ","U","R","L","s">>
W_emailLoop ==
    <<"e","m","a","i","l","L","o","o","p">>
\* str(None)
S_None == <<"N","o","n","e">>
S_school == <<"k","1","2">>
S_unknownSchool == <<"n","o","n","e">>
T_html == <<"B","a","d"," ","G","a","t","e","w","a","y">>

DigitChars == <<"0","1","2","3","4","5","6","7","8","9">>

RECURSIVE Str(_)
\* str(n) of a natural number, as an f-string renders it
Str(n) ==
    IF n < 10 THEN <<DigitChars[n + 1]>>
    ELSE Str(n \div 10) \o <<DigitChars[(n % 10) + 1]>>

RECURSIVE Join(_, _)
\* sep.join(list)
Join(list, sep) ==
    IF Len(list) = 0 THEN <<>>
    ELSE IF Len(list) = 1 THEN list[1]
    ELSE list[1] \o sep \o Join(Tail(list), sep)

\* str(data) of a decoded body inside an f-string: its text is not modelled
Repr(data) == <<"{data}">>

(***************************************************************************)
(* Responses of the transport: _sheerid_request returns (data, status) or  *)
(* raises; data is the decoded JSON object or, failing that, the text.     *)
(* A key a JSON object does not carry is None (a list: NoList).            *)
(***************************************************************************)
NoList == << <<"<missing>">> >>

EmptyDict ==
    [exc |-> FALSE, status |-> 200, json |-> TRUE, text |-> None,
     currentStep |-> None, errorIds |-> NoList, systemErrorMessage |-> None,
     segment |-> None, submissionUrl |-> None, canResendEmailLoop |-> FALSE,
     documents |-> NoList, redirectUrl |-> None]

\* the request raised (connection error, timeout)
TransportFailure == [EmptyDict EXCEPT !.exc = TRUE, !.status = 0, !.json = FALSE]

\* response.json() failed: data = response.text
TextBody(st, t) == [EmptyDict EXCEPT !.status = st, !.json = FALSE, !.text = t]

Json(st) == [EmptyDict EXCEPT !.status = st]

\* step4_data.get('documents') or []
Documents(step4_data) ==
    IF step4_data.documents = NoList THEN <<>> ELSE step4_data.documents

\* responses to the two POSTs to step/collectTeacherPersonalInfo
AcceptedBodies ==
    { [Json(200) EXCEPT !.currentStep = c] :
        c \in {None, S_sso, S_collectTeacherPersonalInfo, S_docUpload, S_pending} }
    \cup { [Json(200) EXCEPT !.currentStep = S_error, !.errorIds = e] :
        e \in {NoList, <<E_invalidBirthDate, E_invalidStep>>} }

TeacherResponses ==
    {TransportFailure, TextBody(200, T_html), TextBody(400, T_html),
     TextBody(400, Sys_localhost)}
    \cup AcceptedBodies
    \cup { [Json(201) EXCEPT !.currentStep = S_sso] }
    \cup { [Json(400) EXCEPT !.errorIds = e, !.systemErrorMessage = m, !.segment = g] :
            e \in {NoList, <<E_INVALID_STEP>>, <<E_invalidStep>>, <<E_invalidBirthDate>>},
            m \in {None, Sys_cannot_perform, Sys_localhost},
            g \in {None, S_military, S_teacher} }

ResubmitResponses ==
    {TransportFailure, TextBody(200, T_html), TextBody(400, T_html)}
    \cup AcceptedBodies
    \cup { [Json(201) EXCEPT !.currentStep = S_sso] }
    \cup { [Json(400) EXCEPT !.errorIds = e] :
            e \in {NoList, <<E_INVALID_STEP>>, <<E_invalidStep>>} }

\* responses to the GET of the verification snapshot before the path is chosen
SnapshotSelResponses ==
    {TransportFailure, TextBody(200, T_html)}
    \cup { [Json(200) EXCEPT !.segment = g, !.currentStep = c] :
            g \in {None, S_military},
            c \in {None, S_collectMilitaryStatus, S_collectTeacherPersonalInfo} }


\* responses to the POST to step/collectMilitaryStatus
StatusResponses ==
    {TransportFailure, TextBody(200, T_html), TextBody(400, T_html),
     Json(201), Json(400), [Json(400) EXCEPT !.errorIds = <<E_invalidStep>>]}
    \cup { [Json(200) EXCEPT !.currentStep = c] :
            c \in {None, S_collectInactiveMilitaryPersonalInfo, S_docUpload, S_sso, S_error} }

\* responses to the GET of the verification snapshot after the status was set
SnapshotMilResponses ==
    {TransportFailure, TextBody(200, T_html), Json(200),
     [Json(200) EXCEPT !.currentStep = S_docUpload],
     [Json(200) EXCEPT !.currentStep = S_collectInactiveMilitaryPersonalInfo],
     [Json(200) EXCEPT !.currentStep = S_collectInactiveMilitaryPersonalInfo,
                       !.submissionUrl = Url_submission],
     [Json(200) EXCEPT !.currentStep = S_collectActiveMilitaryPersonalInfo,
                       !.submissionUrl = Url_submission]}

\* responses to the POST of the military personal info
SecondaryResponses ==
    {TransportFailure, TextBody(200, T_html), TextBody(400, T_html),
     Json(201), Json(400), [Json(400) EXCEPT !.errorIds = <<E_invalidBirthDate>>],
     [Json(200) EXCEPT !.currentStep = S_error, !.errorIds = <<E_invalidBirthDate>>]}
    \cup { [Json(200) EXCEPT !.currentStep = c] : c \in {None, S_docUpload, S_sso} }


\* responses to the DELETE of step/sso
SsoResponses ==
    {TransportFailure, TextBody(200, T_html), Json(200), Json(400),
     [Json(200) EXCEPT !.currentStep = S_docUpload]}

S_DOC_UPLOAD == <<"D","O","C","_","U","P","L","O","A","D">>
Url_other == <<"h","t","t","p","s",":","/","/","r","/","2">>

\* responses to the GETs of the verification snapshot while waiting for docUpload
SnapshotReadyResponses ==
    {TransportFailure, TextBody(200, T_html)}
    \cup { [Json(200) EXCEPT !.currentStep = c] :
            c \in {None, S_docUpload, S_DOC_UPLOAD, S_pending} }
    \cup { [Json(200) EXCEPT !.currentStep = S_emailLoop, !.canResendEmailLoop = b,
                             !.submissionUrl = u] :
            b \in BOOLEAN, u \in {None, Url_submission, Url_other} }

\* responses to the POST to the emailLoop submission URL
ResendResponses == {TransportFailure, Json(200), Json(400), TextBody(400, T_html)}

\* responses to the GETs of the verification snapshot after the resend
SnapshotEmailResponses ==
    {TransportFailure, TextBody(200, T_html)}
    \cup { [Json(200) EXCEPT !.currentStep = c] : c \in {None, S_docUpload, S_emailLoop} }

\* responses to the POST to step/docUpload; a document is its uploadUrl, None
\* when the key is missing
DocUploadResponses ==
    {TransportFailure, TextBody(200, T_html), TextBody(400, T_html)}
    \cup { [Json(st) EXCEPT !.documents = d] :
            st \in {200, 400},
            d \in {NoList, <<>>, <<Url_pdf>>, <<Url_pdf, Url_png>>,
                   <<Url_pdf, Url_png, Url_other>>, <<Url_pdf, None>>, <<None, Url_png>>} }

\* responses to the diagnostic GET after a failed docUpload
SnapshotFinalResponses == {TransportFailure, Json(200), TextBody(200, T_html)}

\* responses to a PUT of an artifact
PutResponses ==
    {TransportFailure, TextBody(200, <<>>), TextBody(204, <<>>), TextBody(403, T_html),
     TextBody(500, T_html)}

\* responses to the POST to step/completeDocUpload
CompleteResponses ==
    {TransportFailure, TextBody(200, T_html), TextBody(400, T_html)}
    \cup { [Json(st) EXCEPT !.currentStep = c, !.redirectUrl = u] :
            st \in {200, 400}, c \in {None, S_pending},
            u \in {None, Url_redirect, Url_other} }

(***************************************************************************)
(* verify(): state                                                         *)
(***************************************************************************)
Kinds ==
    {"teacher", "snapSel", "resubmit", "status", "snapMil", "secondary", "sso",
     "snapReady", "snapPoll", "resend", "snapEmail", "docUpload", "snapFinal",
     "putPdf", "putPng", "complete"}

\* the id the verifier was constructed with
VerificationId == HexString(TokenLen)

\* config.SCHOOLS (its keys) and config.DEFAULT_SCHOOL_ID
SCHOOLS == {S_school}
DEFAULT_SCHOOL_ID == S_school

\* the locals of verify() before its first request; a local no later statement
\* reads is not kept
NoFrame ==
    [step2_data |-> EmptyDict, step2_status |-> 0,
     ver_status |-> EmptyDict, should_try_military |-> FALSE,
     attempt |-> 0, p_try |-> 0, last_error |-> S_None,
     status_data |-> EmptyDict, submission_url2 |-> None,
     polls |-> 0, poll_count |-> 0, submission_url |-> None,
     pdf_upload_url |-> None, png_upload_url |-> None]

NoResult == [returned |-> FALSE]

\* nothing was answered yet.  teacher: the status of the answer to the first personal-info
\* POST (0: none); status_ok: some status POST was answered 200; put_failed: a PUT raised
\* or was answered outside 2xx; targets: the number of upload targets of the docUpload
\* answer (-1: no JSON object was answered); email_loop: the last snapshot polled for
\* readiness is at the emailLoop step; redirectUrl: the one of the completion answer;
\* last: the request answered last, the URL it went to when the server supplied it (to),
\* the bucket of its answer and the answer's currentStep, errorIds, submissionUrl (url)
\* and canResendEmailLoop
NothingHeard ==
    [teacher |-> 0, status_ok |-> FALSE, put_failed |-> FALSE, targets |-> -1,
     email_loop |-> FALSE, redirectUrl |-> None,
     last |-> [kind |-> "none", to |-> None, bucket |-> "none", step |-> None,
               errorIds |-> NoList, url |-> None, can_resend |-> FALSE]]

parseVars == <<input, output>>
vars ==
    <<pc, input, output, verification_id, resend_email, loc, result, raised, sent, heard,
      script, canonical>>

TypeOK ==
    /\ pc \in {"parse", "parsed", "reparsed", "invalid", "payload", "birth", "discharge",
              "start", "done", "raised"} \cup Kinds
    /\ sent \in [Kinds -> Nat]
    /\ loc.attempt \in Nat

(***************************************************************************)
(* verify(): the except clause and the two returns                         *)
(***************************************************************************)
\* a mutant of Caught: only transport errors are caught
CaughtTransportOnly(e) == e = M_TransportError

\* `except Exception as e` catches every exception the body raises: KeyError,
\* AttributeError, RuntimeError, httpx errors and Exception itself
Caught(e) == TRUE

\* return {'success': False, 'message': str(e), 'verification_id': ...}
Failure(e) ==
    [success |-> FALSE, message |-> e, verification_id |-> verification_id]

\* a mutant of Throw: the exception is logged and the run goes on to the completion
ThrowSwallowed(e) ==
    /\ raised' = e
    /\ loc' = NoFrame
    /\ pc' = "complete"
    /\ result' = result

\* raise inside the try block of verify(): the except clause returns the failure
Throw(e) ==
    /\ raised' = e
    /\ loc' = NoFrame
    /\ IF Caught(e)
       THEN pc' = "done" /\ result' = Failure(e)
       ELSE pc' = "raised" /\ result' = result

Raise(e) == Throw(e) /\ UNCHANGED canonical

\* go on to the request p with the locals l
Goto(p, l) ==
    /\ pc' = p
    /\ loc' = l
    /\ UNCHANGED <<result, raised, canonical>>

\* a mutant of NeedsMilitaryPersonalInfo: only the inactive step is recognised
NeedsMilitaryPersonalInfoInactiveOnly(current) ==
    \/ StartsWith(current, K_collectinactivemilitary)
    \/ Contains(K_collectinactivemilitary, current)

\* the test for the military personal-info step on the lower-cased current step
NeedsMilitaryPersonalInfo(current) ==
    \/ StartsWith(current, K_collectinactivemilitary)
    \/ StartsWith(current, K_collectactivemilitary)
    \/ Contains(K_collectinactivemilitary, current)
    \/ Contains(K_collectactivemilitary, current)

\* x or y, on strings
Or(x, y) == IF x # None /\ x # <<>> THEN x ELSE y

(***************************************************************************)
(* Scenarios of the test plan, as predicates on the answers of the         *)
(* transport.  S1: every step succeeds.  S2: the personal-info step is     *)
(* rejected with errorIds ["INVALID_STEP"], the first status POST fails,   *)
(* the second succeeds, no military personal info is required, the later   *)
(* steps succeed.  S2a: S2 with the error id "invalidStep".                *)
(***************************************************************************)
Scenarios == {"S1", "S2", "S2a"}

Accepted(r) == ~r.exc /\ r.status = 200 /\ r.json /\ r.currentStep # S_error

RejectedWith(r, e) ==
    /\ ~r.exc /\ r.status = 400 /\ r.json
    /\ r.errorIds = <<e>>
    /\ r.systemErrorMessage = None /\ r.segment = None /\ r.currentStep = None

LaterStepsSucceed(kind, r) ==
    \/ kind = "sso" /\ ~r.exc /\ r.status = 200 /\ r.json
    \/ kind = "snapReady" /\ ~r.exc /\ r.status = 200 /\ r.json /\ r.currentStep = S_docUpload
    \/ kind = "docUpload" /\ ~r.exc /\ r.status = 200 /\ r.json
                          /\ r.documents = <<Url_pdf, Url_png>>
    \/ kind \in {"putPdf", "putPng"} /\ ~r.exc /\ r.status = 200
    \/ kind = "complete" /\ ~r.exc /\ r.status = 200 /\ r.json

FollowsS2(e, kind, r) ==
    \/ kind \in {"teacher", "resubmit"} /\ RejectedWith(r, e)
    \/ kind = "snapSel" /\ (r.exc \/ r.json)
    \/ kind = "status" /\ sent["status"] = 0 /\ (r.exc \/ r.status # 200)
    \/ kind = "status" /\ sent["status"] = 1 /\ Accepted(r)
    \/ kind = "snapMil" /\ (r.exc \/ r.json)
          /\ ~NeedsMilitaryPersonalInfo(
                 Lower(Or(Or(r.currentStep, loc.status_data.currentStep), <<>>)))
    \/ LaterStepsSucceed(kind, r)

Follows(s, kind, r) ==
    CASE s = "S1" -> (kind = "teacher" /\ Accepted(r)) \/ LaterStepsSucceed(kind, r)
      [] s = "S2" -> FollowsS2(E_INVALID_STEP, kind, r)
      [] s = "S2a" -> FollowsS2(E_invalidStep, kind, r)

\* the bucket of an answer: transport failure, a 2xx status, any other status
Bucket(r) ==
    IF r.exc THEN "transient"
    ELSE IF r.status >= 200 /\ r.status < 300 THEN "success"
    ELSE "rejection"

\* one request is issued, to the URL to when the server supplied it, and
\* answered by r
SendTo(kind, to, r) ==
    /\ sent' = [sent EXCEPT ![kind] = @ + 1]
    /\ heard' = [heard EXCEPT
            !.teacher = IF kind = "teacher" /\ ~r.exc THEN r.status ELSE @,
            !.status_ok = @ \/ (kind = "status" /\ ~r.exc /\ r.status = 200),
            !.put_failed =
                @ \/ (kind \in {"putPdf", "putPng"} /\
                        (r.exc \/ r.status < 200 \/ r.status >= 300)),
            !.targets = IF kind = "docUpload" /\ r.json THEN Len(Documents(r)) ELSE @,
            !.email_loop = IF kind \notin {"snapReady", "snapPoll", "snapEmail"} THEN @
                           ELSE r.json /\ r.currentStep = S_emailLoop,
            !.redirectUrl = IF kind = "complete" /\ r.json THEN r.redirectUrl ELSE @,
            !.last = [kind |-> kind, to |-> to, bucket |-> Bucket(r),
                      step |-> IF r.json THEN r.currentStep ELSE None,
                      errorIds |-> IF r.json THEN r.errorIds ELSE NoList,
                      url |-> IF r.json THEN r.submissionUrl ELSE None,
                      can_resend |-> r.json /\ r.canResendEmailLoop]]
    /\ script' = {s \in script : Follows(s, kind, r)}

\* one request to a URL that verify() builds itself
Send(kind, r) == SendTo(kind, None, r)

(***************************************************************************)
(* verify(): the steps                                                     *)
(***************************************************************************)
\* a mutant of NeedsSsoBypass: only the step 'sso' is bypassed
NeedsSsoBypassSsoOnly(current_step) == current_step = S_sso

\* current_step in ['sso', 'collectTeacherPersonalInfo']
NeedsSsoBypass(current_step) == current_step \in {S_sso, S_collectTeacherPersonalInfo}

\* a mutant of IsErrorStep: the step 'error' is not looked for
IsErrorStepNever(data) == FALSE

\* step2_data.get('currentStep') == 'error'
IsErrorStep(data) == data.currentStep = S_error

\* step2_data.get('currentStep') on the canonical step-2 response, the SSO test
Step2Done(data, source) ==
    /\ canonical' = source
    /\ IF ~data.json THEN Throw(M_AttributeError)
       ELSE IF IsErrorStep(data)
       THEN Throw(M_Step2Error \o
                  Join(IF data.errorIds = NoList THEN <<E_Unknown_error>> ELSE data.errorIds,
                       <<",", " ">>))
       ELSE LET current_step ==
                    IF data.currentStep = None THEN S_initial ELSE data.currentStep
            IN  /\ pc' = IF NeedsSsoBypass(current_step) THEN "sso" ELSE "snapReady"
                /\ loc' = NoFrame
                /\ UNCHANGED <<result, raised>>

\* verify(), up to the first request: arguments, school lookup, rendering
Start ==
    /\ pc = "start"
    /\ \E school_id \in {None, S_school, S_unknownSchool},
          pdf_ok \in BOOLEAN, png_ok \in BOOLEAN, resend \in BOOLEAN :
          /\ LET sid == IF school_id = None THEN DEFAULT_SCHOOL_ID ELSE school_id
             IN  IF sid \notin SCHOOLS THEN Raise(<<"'">> \o sid \o <<"'">>)
                 ELSE IF ~pdf_ok THEN Raise(M_PdfGeneration)
                 ELSE IF ~png_ok THEN Raise(M_Playwright)
                 ELSE Goto("teacher", NoFrame)
          /\ resend_email' = resend
    /\ UNCHANGED <<sent, heard, script, parseVars, verification_id>>

\* a mutant of Rejected: the fallback is taken whatever the status
RejectedAlways(step2_status) == TRUE

\* step2_status != 200
Rejected(step2_status) == step2_status # 200

\* POST step/collectTeacherPersonalInfo
TeacherPost ==
    /\ pc = "teacher"
    /\ \E r \in TeacherResponses :
          /\ Send("teacher", r)
          /\ IF r.exc THEN Raise(M_TransportError)
             ELSE IF Rejected(r.status)
             THEN Goto("snapSel", [loc EXCEPT !.step2_data = r, !.step2_status = r.status])
             ELSE Step2Done(r, "teacher")
    /\ UNCHANGED <<parseVars, verification_id, resend_email>>

\* system_msg of the rejected response
SystemMsg(step2_data) ==
    IF step2_data.json
    THEN IF step2_data.systemErrorMessage = None THEN <<>>
         ELSE Lower(step2_data.systemErrorMessage)
    ELSE Lower(step2_data.text)

\* a mutant of IsInvalidStep: the error ids are not lower-cased
IsInvalidStepCaseSensitive(step2_data) ==
    /\ step2_data.json
    /\ step2_data.errorIds # NoList
    /\ Len(step2_data.errorIds) > 0
    /\ Contains(K_invalidstep, Join(step2_data.errorIds, <<",">>))

\* is_invalid_step
IsInvalidStep(step2_data) ==
    /\ step2_data.json
    /\ step2_data.errorIds # NoList
    /\ Len(step2_data.errorIds) > 0
    /\ Contains(K_invalidstep, Lower(Join(step2_data.errorIds, <<",">>)))

\* should_try_military
ShouldTryMilitary(step2_data, ver_status) ==
    \/ Contains(K_localhost, SystemMsg(step2_data))
    \/ Contains(K_cannot_perform_step, SystemMsg(step2_data))
    \/ IsInvalidStep(step2_data)
    \/ (step2_data.json /\ step2_data.segment = S_military)
    \/ ver_status.segment = S_military
    \/ StartsWith(Lower(IF ver_status.currentStep = None THEN <<>>
                        ELSE ver_status.currentStep),
                  K_collectmilitary)

\* a mutant of HasReferer: the body carries no referer
HasRefererNever == FALSE

\* 'refererUrl' in step2_body.get('metadata', {}): the body built by verify()
\* always carries it
HasReferer == TRUE

\* a mutant of EntersMilitary: the military flow is tried after every rejection
EntersMilitaryAlways(step2_status, should_try_military) == Rejected(step2_status)

\* step2_status != 200 and should_try_military
EntersMilitary(step2_status, should_try_military) ==
    Rejected(step2_status) /\ should_try_military

\* the locals on entry to the status loop
MilitaryFrame(step2_status) ==
    [loc EXCEPT !.step2_data = EmptyDict, !.step2_status = step2_status,
                !.attempt = 0, !.last_error = S_None, !.ver_status = EmptyDict]

\* GET verification snapshot, then the fallback decision
SnapshotSel ==
    /\ pc = "snapSel"
    /\ \E r \in SnapshotSelResponses :
          /\ Send("snapSel", r)
          /\ LET ver_status == IF r.exc THEN EmptyDict ELSE r
                 should_try_military == ShouldTryMilitary(loc.step2_data, ver_status)
             IN  IF ~ver_status.json THEN Raise(M_AttributeError)
                 ELSE IF HasReferer
                 THEN Goto("resubmit",
                           [loc EXCEPT !.ver_status = ver_status,
                                       !.should_try_military = should_try_military])
                 ELSE IF EntersMilitary(loc.step2_status, should_try_military)
                 THEN Goto("status", MilitaryFrame(loc.step2_status))
                 ELSE Raise(M_Step2FailedStatus \o Str(loc.step2_status)
                                \o <<")", ":", " ">> \o Repr(loc.step2_data))
    /\ UNCHANGED <<parseVars, verification_id, resend_email>>

\* POST step/collectTeacherPersonalInfo again, without metadata.refererUrl
Resubmit ==
    /\ pc = "resubmit"
    /\ \E r \in ResubmitResponses :
          /\ Send("resubmit", r)
          /\ IF r.exc THEN Raise(M_TransportError)
             ELSE IF EntersMilitary(r.status, loc.should_try_military)
             THEN Goto("status", MilitaryFrame(r.status))
             ELSE IF Rejected(r.status)
             THEN Raise(M_Step2FailedStatus \o Str(r.status) \o <<")", ":", " ">> \o Repr(r))
             ELSE Step2Done(r, "resubmit")
    /\ UNCHANGED <<parseVars, verification_id, resend_email>>

\* max_attempts of the status loop
max_attempts == 4

\* personal_attempts of the military personal-info loop
personal_attempts == 3

\* a mutant of NextAttempt: one attempt too many
NextAttemptOffByOne(l) ==
    IF l.attempt + 1 <= max_attempts
    THEN Goto("status",
              [l EXCEPT !.attempt = @ + 1, !.p_try = 0, !.status_data = EmptyDict,
                        !.ver_status = EmptyDict, !.submission_url2 = None])
    ELSE Raise(M_Step2FailedMilitary \o l.last_error \o <<")">>)

\* a mutant of NextAttempt: a failed attempt ends the loop
NextAttemptNoRetry(l) == Raise(M_Step2FailedMilitary \o l.last_error \o <<")">>)

\* `continue` of the status loop, and line 312 once the loop is exhausted
NextAttempt(l) ==
    IF l.attempt + 1 < max_attempts
    THEN Goto("status",
              [l EXCEPT !.attempt = @ + 1, !.p_try = 0, !.status_data = EmptyDict,
                        !.ver_status = EmptyDict, !.submission_url2 = None])
    ELSE Raise(M_Step2FailedMilitary \o l.last_error \o <<")">>)

\* POST step/collectMilitaryStatus with a randomly chosen status
StatusPost ==
    /\ pc = "status"
    /\ \E r \in StatusResponses :
          /\ Send("status", r)
          /\ IF r.exc THEN NextAttempt([loc EXCEPT !.last_error = M_TransportError])
             ELSE IF r.status # 200 THEN NextAttempt([loc EXCEPT !.last_error = Repr(r)])
             ELSE Goto("snapMil", [loc EXCEPT !.status_data = r])
    /\ UNCHANGED <<parseVars, verification_id, resend_email>>

\* GET verification snapshot after the status POST succeeded
SnapshotMil ==
    /\ pc = "snapMil"
    /\ \E r \in SnapshotMilResponses :
          /\ Send("snapMil", r)
          /\ LET ver_status == IF r.exc THEN EmptyDict ELSE r
                 own == ver_status.currentStep # None /\ ver_status.currentStep # <<>>
                 current == Lower(Or(Or(ver_status.currentStep, loc.status_data.currentStep),
                                     <<>>))
             IN  IF ~ver_status.json THEN Raise(M_AttributeError)
                 ELSE IF ~own /\ ~loc.status_data.json THEN Raise(M_AttributeError)
                 ELSE IF NeedsMilitaryPersonalInfo(current)
                 THEN Goto("secondary",
                           [loc EXCEPT !.ver_status = ver_status, !.p_try = 0,
                                       !.submission_url2 =
                                           Or(ver_status.submissionUrl,
                                              S_collectInactiveMilitaryPersonalInfo)])
                 ELSE Step2Done(loc.status_data, "status")
    /\ UNCHANGED <<parseVars, verification_id, resend_email>>

\* a mutant of NextPersonal: the personal-info loop gives up one attempt early
NextPersonalOneLess(l) ==
    IF l.p_try + 2 < personal_attempts
    THEN Goto("secondary", [l EXCEPT !.p_try = @ + 1])
    ELSE NextAttempt(l)

\* a mutant of NextPersonal: the personal-info loop makes one attempt more
NextPersonalOneMore(l) ==
    IF l.p_try + 1 <= personal_attempts
    THEN Goto("secondary", [l EXCEPT !.p_try = @ + 1])
    ELSE NextAttempt(l)

\* `continue` of the personal-info loop; once it is exhausted the status loop goes on
NextPersonal(l) ==
    IF l.p_try + 1 < personal_attempts
    THEN Goto("secondary", [l EXCEPT !.p_try = @ + 1])
    ELSE NextAttempt(l)

\* POST of the military personal info to submission_url2
SecondaryPost ==
    /\ pc = "secondary"
    /\ \E r \in SecondaryResponses :
          /\ Send("secondary", r)
          /\ IF r.exc THEN NextPersonal([loc EXCEPT !.last_error = M_TransportError])
             ELSE IF r.status = 200 /\ ~(r.json /\ r.currentStep = S_error)
             THEN Step2Done(r, "secondary")
             ELSE NextPersonal([loc EXCEPT !.last_error = Repr(r)])
    /\ UNCHANGED <<parseVars, verification_id, resend_email>>

\* DELETE step/sso
SsoDelete ==
    /\ pc = "sso"
    /\ \E r \in SsoResponses :
          /\ Send("sso", r)
          /\ IF r.exc THEN Raise(M_TransportError)
             ELSE IF ~r.json THEN Raise(M_AttributeError)
             ELSE Goto("snapReady", loc)
    /\ UNCHANGED <<parseVars, verification_id, resend_email>>

\* the bound of the readiness poll: while polls < 3
max_ready_polls == 3

\* max_polls of the poll after the email resend
max_polls == 30

\* 'docupload' in current or 'doc_upload' in current
IsDocUpload(current) ==
    Contains(K_docupload, current) \/ Contains(K_doc_upload, current)

\* (ver_check.get('currentStep') or '').lower()
CurrentOf(ver_check) == Lower(Or(ver_check.currentStep, <<>>))

\* a mutant of AfterPolling: the email is resent whether or not the caller asked
AfterPollingIgnoresFlag(ver_check) ==
    IF Contains(K_emailloop, CurrentOf(ver_check))
    THEN IF ~ver_check.canResendEmailLoop THEN Raise(M_EmailLoopDisallowed)
         ELSE IF ver_check.submissionUrl = None \/ ver_check.submissionUrl = <<>>
         THEN Raise(M_EmailLoopNoUrl)
         ELSE Goto("resend", [loc EXCEPT !.submission_url = ver_check.submissionUrl,
                                         !.polls = 0])
    ELSE Goto("docUpload", [loc EXCEPT !.polls = 0])

\* a mutant of AfterPolling: the server's canResendEmailLoop is not consulted
AfterPollingIgnoresServer(ver_check) ==
    IF Contains(K_emailloop, CurrentOf(ver_check))
    THEN IF ~resend_email THEN Raise(M_EmailLoopNoResend)
         ELSE IF ver_check.submissionUrl = None \/ ver_check.submissionUrl = <<>>
         THEN Raise(M_EmailLoopNoUrl)
         ELSE Goto("resend", [loc EXCEPT !.submission_url = ver_check.submissionUrl,
                                         !.polls = 0])
    ELSE Goto("docUpload", [loc EXCEPT !.polls = 0])

\* the emailLoop test after the readiness poll, up to the next request
AfterPolling(ver_check) ==
    IF Contains(K_emailloop, CurrentOf(ver_check))
    THEN IF ~resend_email THEN Raise(M_EmailLoopNoResend)
         ELSE IF ~ver_check.canResendEmailLoop THEN Raise(M_EmailLoopDisallowed)
         ELSE IF ver_check.submissionUrl = None \/ ver_check.submissionUrl = <<>>
         THEN Raise(M_EmailLoopNoUrl)
         ELSE Goto("resend", [loc EXCEPT !.submission_url = ver_check.submissionUrl,
                                         !.polls = 0])
    ELSE Goto("docUpload", [loc EXCEPT !.polls = 0])

\* a mutant of Polling: the loop has no bound on its polls
PollingUnbounded(ver_check, polls) ==
    IF ~ver_check.json THEN Raise(M_AttributeError)
    ELSE IF ~IsDocUpload(CurrentOf(ver_check))
    THEN Goto("snapPoll", [loc EXCEPT !.polls = polls])
    ELSE AfterPolling(ver_check)

\* the condition of the readiness poll loop, with the polls made so far
Polling(ver_check, polls) ==
    IF ~ver_check.json THEN Raise(M_AttributeError)
    ELSE IF polls < max_ready_polls /\ ~IsDocUpload(CurrentOf(ver_check))
    THEN Goto("snapPoll", [loc EXCEPT !.polls = polls])
    ELSE AfterPolling(ver_check)

\* GET verification snapshot before the docUpload request
SnapshotReady ==
    /\ pc = "snapReady"
    /\ \E r \in SnapshotReadyResponses :
          /\ Send("snapReady", r)
          /\ Polling(IF r.exc THEN EmptyDict ELSE r, 0)
    /\ UNCHANGED <<parseVars, verification_id, resend_email>>

\* GET verification snapshot again, in the readiness poll loop
SnapshotPoll ==
    /\ pc = "snapPoll"
    /\ \E r \in SnapshotReadyResponses :
          /\ Send("snapPoll", r)
          /\ Polling(IF r.exc THEN EmptyDict ELSE r, loc.polls + 1)
    /\ UNCHANGED <<parseVars, verification_id, resend_email>>

\* POST to the emailLoop submission URL
ResendPost ==
    /\ pc = "resend"
    /\ \E r \in ResendResponses :
          /\ SendTo("resend", loc.submission_url, r)
          /\ IF r.exc THEN Raise(M_ResendFailed \o M_TransportError)
             ELSE Goto("snapEmail", [loc EXCEPT !.poll_count = 0, !.submission_url = None])
    /\ UNCHANGED <<parseVars, verification_id, resend_email>>

\* a mutant of PollsLeft: one more poll than max_polls
PollsLeftOneMore(poll_count) == poll_count <= max_polls

\* while poll_count < max_polls
PollsLeft(poll_count) == poll_count < max_polls

\* GET verification snapshot in the poll loop after the resend
SnapshotEmail ==
    /\ pc = "snapEmail"
    /\ \E r \in SnapshotEmailResponses :
          /\ Send("snapEmail", r)
          /\ LET ver_check == IF r.exc THEN EmptyDict ELSE r
             IN  IF ~ver_check.json THEN Raise(M_AttributeError)
                 ELSE IF IsDocUpload(CurrentOf(ver_check))
                 THEN Goto("docUpload", [loc EXCEPT !.poll_count = 0])
                 ELSE IF PollsLeft(loc.poll_count + 1)
                 THEN Goto("snapEmail", [loc EXCEPT !.poll_count = @ + 1])
                 ELSE Raise(M_EmailTimeout)
    /\ UNCHANGED <<parseVars, verification_id, resend_email>>

\* a mutant of TooFewDocuments: one document is enough
TooFewDocumentsOffByOne(documents) == Len(documents) < 1

\* len(documents) < 2
TooFewDocuments(documents) == Len(documents) < 2

\* str(IndexError) of documents[1] on a list of one
M_IndexError ==
    <<"l","i","s","t"," ","i","n","d","e","x"," ","o","u","t"," ","o","f"," ","r","a","n","g","e">>

\* POST step/docUpload
DocUploadPost ==
    /\ pc = "docUpload"
    /\ \E r \in DocUploadResponses :
          /\ Send("docUpload", r)
          /\ IF r.exc THEN Raise(M_TransportError)
             ELSE IF ~r.json THEN Raise(M_AttributeError)
             ELSE IF TooFewDocuments(Documents(r)) THEN Goto("snapFinal", loc)
             ELSE IF Len(Documents(r)) < 2 THEN Raise(M_IndexError)
             ELSE IF Documents(r)[1] = None \/ Documents(r)[2] = None
             THEN Raise(M_KeyError_uploadUrl)
             ELSE Goto("putPdf", [loc EXCEPT !.pdf_upload_url = Documents(r)[1],
                                             !.png_upload_url = Documents(r)[2]])
    /\ UNCHANGED <<parseVars, verification_id, resend_email>>

\* GET verification snapshot for the log, then the raise of line 404
SnapshotFinal ==
    /\ pc = "snapFinal"
    /\ \E r \in SnapshotFinalResponses :
          /\ Send("snapFinal", r)
          /\ Raise(M_UploadUrls)
    /\ UNCHANGED <<parseVars, verification_id, resend_email>>

\* a mutant of upload_to_s3: a transport error is not a failed upload
UploadIgnoresTransport(r) == r.exc \/ (200 <= r.status /\ r.status < 300)

\* a mutant of upload_to_s3: the outcome of the PUT is not looked at
UploadUnchecked(r) == TRUE

\* a mutant of upload_to_s3: any response counts as uploaded
UploadAnyStatus(r) == ~r.exc

\* upload_to_s3
upload_to_s3(r) == ~r.exc /\ 200 <= r.status /\ r.status < 300

\* PUT of the PDF
PutPdf ==
    /\ pc = "putPdf"
    /\ \E r \in PutResponses :
          /\ Send("putPdf", r)
          /\ IF ~upload_to_s3(r) THEN Raise(M_PdfUpload)
             ELSE Goto("putPng", [loc EXCEPT !.pdf_upload_url = None])
    /\ UNCHANGED <<parseVars, verification_id, resend_email>>

\* PUT of the PNG
PutPng ==
    /\ pc = "putPng"
    /\ \E r \in PutResponses :
          /\ Send("putPng", r)
          /\ IF ~upload_to_s3(r) THEN Raise(M_PngUpload)
             ELSE Goto("complete", [loc EXCEPT !.png_upload_url = None])
    /\ UNCHANGED <<parseVars, verification_id, resend_email>>

\* a mutant of Success: the redirect URL is read from the wrong key
SuccessWrongKey(final_status) ==
    [success |-> TRUE, pending |-> TRUE, message |-> M_Pending,
     verification_id |-> verification_id,
     redirect_url |-> final_status.submissionUrl, status |-> final_status]

\* return {'success': True, ...}
Success(final_status) ==
    [success |-> TRUE, pending |-> TRUE, message |-> M_Pending,
     verification_id |-> verification_id,
     redirect_url |-> final_status.redirectUrl, status |-> final_status]

\* POST step/completeDocUpload
Complete ==
    /\ pc = "complete"
    /\ \E r \in CompleteResponses :
          /\ Send("complete", r)
          /\ IF r.exc THEN Raise(M_TransportError)
             ELSE IF ~r.json THEN Raise(M_AttributeError)
             ELSE /\ pc' = "done"
                  /\ result' = Success(r)
                  /\ loc' = NoFrame
                  /\ UNCHANGED <<raised, canonical>>
    /\ UNCHANGED <<parseVars, verification_id, resend_email>>

Init ==
    /\ pc = "start"
    /\ input = <<>>
    /\ output = None
    /\ verification_id = VerificationId
    /\ resend_email = FALSE
    /\ heard = NothingHeard
    /\ loc = NoFrame
    /\ result = NoResult
    /\ raised = None
    /\ sent = [k \in Kinds |-> 0]
    /\ script = Scenarios
    /\ canonical = "none"

Next ==
    \/ Start
    \/ TeacherPost
    \/ SnapshotSel
    \/ Resubmit
    \/ StatusPost
    \/ SnapshotMil
    \/ SecondaryPost
    \/ SsoDelete
    \/ SnapshotReady
    \/ SnapshotPoll
    \/ ResendPost
    \/ SnapshotEmail
    \/ DocUploadPost
    \/ SnapshotFinal
    \/ PutPdf
    \/ PutPng
    \/ Complete

Spec == Init /\ [][Next]_vars

(***************************************************************************)
(* Properties of verify()                                                  *)
(***************************************************************************)
LaterRequests == {"sso", "snapReady", "snapPoll", "resend", "snapEmail", "docUpload",
                  "snapFinal", "putPdf", "putPng", "complete"}

\* C1: verify() never raises to its caller, and when it has returned, either
\* no exception was raised in its body and the outcome is the success that
\* follows the completion request, or the outcome has success false, the text
\* of the exception as its message and the session's verification id
C1_NeverRaises ==
    /\ pc # "raised"
    /\ pc = "done" =>
          IF raised = None
          THEN result.success /\ sent["complete"] = 1
          ELSE result = [success |-> FALSE, message |-> raised,
                         verification_id |-> VerificationId]

\* C1: a run that failed at its last request, the completion POST, has returned
\* the failure outcome carrying the transport error
C1_Witness ==
    /\ pc = "done"
    /\ sent["complete"] = 1
    /\ raised = M_TransportError
    /\ result.message = M_TransportError

\* C2: when every answer follows scenario S1 (each step succeeds in order),
\* verify() returns success true after the completion request, with
\* redirect_url equal to the redirectUrl of the completion response
C2_HappyPath ==
    (pc = "done" /\ "S1" \in script /\ sent["teacher"] = 1) =>
        /\ result.success
        /\ sent["complete"] = 1
        /\ result.redirect_url = heard.redirectUrl

\* C2: a run of scenario S1 has returned the redirect URL of the completion
\* response
C2_Witness ==
    /\ pc = "done"
    /\ "S1" \in script
    /\ sent["putPdf"] = 1 /\ sent["putPng"] = 1 /\ sent["complete"] = 1
    /\ result.success
    /\ result.redirect_url = Url_redirect

\* C3: once the first personal-info POST was answered 200, no snapshot for the
\* path selection, no resubmission, no status POST, no post-status snapshot
\* and no military personal-info POST is ever sent
C3_NoFallback ==
    heard.teacher = 200 =>
        \A k \in {"snapSel", "resubmit", "status", "snapMil", "secondary"} : sent[k] = 0

\* C3: a run whose first personal-info POST was answered 200 has completed
C3_Witness ==
    /\ heard.teacher = 200
    /\ pc = "done"
    /\ result.success
    /\ sent["complete"] = 1

C6_StatusExhausted ==
    (sent["status"] >= 1 /\ ~heard.status_ok) =>
        /\ \A k \in LaterRequests : sent[k] = 0
        /\ IF sent["status"] = max_attempts
           THEN /\ pc = "done"
                /\ ~result.success
                /\ StartsWith(result.message, M_Step2FailedMilitary)
           ELSE pc = "status" /\ sent["status"] < max_attempts

\* C6: all four status POSTs failed and verify() has returned the failure
C6_Witness ==
    /\ sent["status"] = max_attempts
    /\ ~heard.status_ok
    /\ pc = "done"
    /\ ~result.success

\* C7: once a PUT of the PDF or of the PNG failed (status outside 200..299 or
\* transport error), verify() has returned success false and the completion
\* POST is never sent
C7_FailedPutNoCompletion ==
    heard.put_failed =>
        /\ sent["complete"] = 0
        /\ pc = "done"
        /\ ~result.success

\* C7: the PDF was transferred, the PUT of the PNG failed
C7_Witness ==
    /\ heard.put_failed
    /\ sent["putPdf"] = 1
    /\ sent["putPng"] = 1
    /\ result.message = M_PngUpload

\* C8: once the doc-upload response held fewer than two documents (none, one,
\* or no documents field), no PUT and no completion POST is ever sent, and
\* after the diagnostic snapshot verify() returns a failure whose message
\* mentions "Upload URLs"
C8_TooFewTargets ==
    heard.targets \in {0, 1} =>
        /\ sent["putPdf"] = 0 /\ sent["putPng"] = 0 /\ sent["complete"] = 0
        /\ pc \in {"snapFinal", "done"}
        /\ pc = "done" =>
              /\ ~result.success
              /\ Contains(W_Upload_URLs, result.message)
              /\ sent["snapFinal"] = 1

\* C8: the doc-upload response held one document and verify() has returned
C8_Witness ==
    /\ heard.targets = 1
    /\ pc = "done"
    /\ result.message = M_UploadUrls

\* C9: when the last readiness snapshot is at the emailLoop step and the
\* caller did not ask for the resend, then once the readiness polling is over
\* verify() has returned a failure whose message mentions "emailLoop", and no
\* resend POST and no doc-upload POST was sent
C9_EmailLoopNoResend ==
    (heard.email_loop /\ ~resend_email /\ pc # "snapPoll") =>
        /\ pc = "done"
        /\ ~result.success
        /\ Contains(W_emailLoop, result.message)
        /\ sent["resend"] = 0
        /\ sent["docUpload"] = 0
        /\ sent["complete"] = 0

\* C9: every readiness snapshot was at emailLoop, the resend was not asked for
C9_Witness ==
    /\ heard.email_loop
    /\ ~resend_email
    /\ sent["snapReady"] = 1
    /\ sent["snapPoll"] = max_ready_polls
    /\ pc = "done"
    /\ result.message = M_EmailLoopNoResend

\* C11: a step in which an exception is raised ends the run with the failure
\* outcome carrying the exception's text, and after an exception was raised
\* no request is sent and the outcome does not change
C11_FailedIsTerminal ==
    [][/\ raised' # None =>
             /\ pc' = "done"
             /\ ~result'.success
             /\ result'.message = raised'
       /\ raised # None =>
             /\ sent' = sent
             /\ result' = result
             /\ pc' = "done"]_vars

\* C11: the poll after the email resend timed out and verify() returned the
\* failure; the docUpload POST was never sent
C11_Witness ==
    /\ raised = M_EmailTimeout
    /\ pc = "done"
    /\ ~result.success
    /\ sent["snapEmail"] = max_polls
    /\ sent["docUpload"] = 0

\* C12: a 2xx answer to a personal-info, status or military personal-info
\* POST (whose body does not itself report the step 'error') is followed by
\* no fallback and no retry, and an answer with any other status to the SSO
\* bypass, the docUpload POST or the completion POST ends the run in failure
\* (after the diagnostic snapshot, for the docUpload POST)
C12_ThreeBuckets ==
    /\ (heard.last.bucket = "success" /\ heard.last.step # S_error) =>
          /\ heard.last.kind = "teacher" => pc # "snapSel"
          /\ heard.last.kind \in {"resubmit", "status"} => pc # "status"
          /\ heard.last.kind = "secondary" => pc \notin {"secondary", "status"}
    /\ (heard.last.bucket = "rejection"
            /\ heard.last.kind \in {"sso", "docUpload", "complete"}) =>
          /\ pc \in {"done", "snapFinal"}
          /\ pc = "snapFinal" => heard.last.kind = "docUpload"
          /\ pc = "done" => ~result.success

C15_StatusLoopStopsAtFirstSuccess ==
    [][heard.status_ok => sent'["status"] = sent["status"]]_vars

\* C15 as amended: after a status POST was answered 200, a further status POST
\* is sent only when the military personal-info POSTs that followed each such
\* answer have all failed, 3 for each; once the status response or a
\* military personal-info response is the step-2 result the loops are left
C15_StatusLoopResumesAfterSecondaryFails ==
    /\ (heard.status_ok /\ pc = "status") =>
          /\ heard.last.kind \in {"secondary", "status"}
          /\ sent["snapMil"] >= 1
          /\ sent["secondary"] = personal_attempts * sent["snapMil"]
          /\ sent["status"] < max_attempts
    /\ canonical \in {"status", "secondary"} =>
          pc \notin {"status", "snapMil", "secondary"}

\* C15: the first status POST was answered 200, three military personal-info
\* POSTs failed, and the second status POST is next
C15_Witness ==
    /\ heard.status_ok
    /\ pc = "status"
    /\ sent["status"] = 1
    /\ sent["secondary"] = personal_attempts

\* C16 as claimed: at most 3 military personal-info POSTs are sent in a run
C16_AtMostThreeSecondary ==
    sent["secondary"] <= personal_attempts

\* C16 as amended: at most 3 military personal-info POSTs are sent for each
\* status POST answered 200 (each is followed by one snapshot GET), hence at
\* most 4 * 3 in a run
C16_ThreeSecondaryPerStatus ==
    /\ sent["secondary"] <= personal_attempts * sent["snapMil"]
    /\ sent["snapMil"] <= sent["status"]
    /\ sent["status"] <= max_attempts
    /\ pc = "secondary" =>
          /\ loc.p_try < personal_attempts
          /\ sent["secondary"] = personal_attempts * (sent["snapMil"] - 1) + loc.p_try

\* C16: all four status POSTs were answered 200 and each was followed by three
\* failed military personal-info POSTs
C16_Witness ==
    /\ sent["status"] = max_attempts
    /\ sent["secondary"] = personal_attempts * max_attempts
    /\ pc = "done"
    /\ ~result.success

\* C17: the step that fetches the snapshot after a status POST answered 200
\* goes on to the military personal-info POST exactly when the current step
\* (the snapshot's, else the status response's) is the inactive or the active
\* military personal-info step; otherwise it sends no such POST and makes the
\* status response the step-2 result.  (A snapshot or status body that is no
\* JSON object ends the run with the AttributeError of .get.)
C17_SecondaryIffMilitaryInfoStep ==
    [][(pc = "snapMil" /\ pc' # "snapMil") =>
          LET current == IF heard'.last.step # None THEN heard'.last.step
                         ELSE loc.status_data.currentStep
          IN  /\ sent'["secondary"] = sent["secondary"]
              /\ \/ raised' = M_AttributeError
                 \/ IF current \in {S_collectInactiveMilitaryPersonalInfo,
                                    S_collectActiveMilitaryPersonalInfo}
                    THEN pc' = "secondary" /\ canonical' = "none"
                    ELSE /\ canonical' = "status"
                         /\ pc' \in {"sso", "snapReady", "done"}
                         /\ pc' = "sso" <=> loc.status_data.currentStep = S_sso]_vars

\* C17: the snapshot after the first status POST names the active military
\* personal-info step and the military personal-info POST is next
C17_Witness ==
    /\ pc = "secondary"
    /\ sent["secondary"] = 0
    /\ sent["snapMil"] = 1
    /\ heard.last.kind = "snapMil"
    /\ heard.last.step = S_collectActiveMilitaryPersonalInfo

\* C18: when the answer to the SSO bypass DELETE has a status outside 2xx or
\* the request fails in the transport, verify() has returned a failure (so no
\* snapshot poll, docUpload request, PUT or completion follows)
C18_SsoFailureIsFatal ==
    (heard.last.kind = "sso" /\ heard.last.bucket \in {"rejection", "transient"}) =>
        /\ pc = "done"
        /\ ~result.success
        /\ \A k \in LaterRequests \ {"sso"} : sent[k] = 0

\* C19: the SSO bypass DELETE is sent at most once; the step that fixes the
\* step-2 result goes on to the DELETE exactly when that result's currentStep
\* is 'sso' or 'collectTeacherPersonalInfo', and to the readiness snapshot
\* otherwise; nothing else leads to the DELETE
C19_SsoBypassExactlyWhenAtSso ==
    [][LET step == IF pc = "snapMil" THEN loc.status_data.currentStep
                   ELSE heard'.last.step
       IN  /\ sent'["sso"] <= 1
           /\ sent'["sso"] # sent["sso"] => pc = "sso"
           /\ (pc = "sso" /\ pc' # "sso") => sent'["sso"] = 1
           /\ (canonical' # canonical /\ raised' = None) =>
                 /\ pc' \in {"sso", "snapReady"}
                 /\ pc' = "sso" <=> step \in {S_sso, S_collectTeacherPersonalInfo}
           /\ (canonical' = canonical /\ pc' = "sso") => pc = "sso"]_vars

\* C19: the military personal-info response is the step-2 result, its step is
\* 'sso', and the DELETE has been sent once
C19_Witness ==
    /\ canonical = "secondary"
    /\ sent["sso"] = 1
    /\ heard.last.kind = "sso"
    /\ pc = "snapReady"

\* C20: at most 3 snapshot polls follow the first readiness snapshot; no poll
\* follows a snapshot at docUpload; and when the third poll is neither at
\* docUpload nor at emailLoop verify() has returned a failure and the
\* docUpload POST is not sent
C20_ReadinessPollGates ==
    /\ sent["snapPoll"] <= max_ready_polls
    /\ (heard.last.kind \in {"snapReady", "snapPoll"}
            /\ heard.last.step \in {S_docUpload, S_DOC_UPLOAD}) => pc = "docUpload"
    /\ (heard.last.kind = "snapPoll" /\ sent["snapPoll"] = max_ready_polls
            /\ heard.last.step \notin {S_docUpload, S_DOC_UPLOAD, S_emailLoop}) =>
          /\ pc = "done"
          /\ ~result.success
          /\ sent["docUpload"] = 0

\* C21: when the readiness poll ends on a snapshot at emailLoop and the resend
\* was asked for, verify() has returned a failure without any resend POST if
\* the snapshot's canResendEmailLoop is falsy or it has no submissionUrl, and
\* otherwise the next request is the resend POST; that POST goes to the
\* snapshot's submissionUrl and is sent at most once in a run
C21_ResendOnlyWhenAllowed ==
    [][/\ (/\ heard.last.kind \in {"snapReady", "snapPoll"}
           /\ heard.last.step = S_emailLoop
           /\ pc # "snapPoll"
           /\ resend_email) =>
             IF heard.last.can_resend /\ heard.last.url # None
             THEN /\ pc = "resend"
                  /\ sent["resend"] = 0
                  /\ pc' # "resend" =>
                        /\ sent'["resend"] = 1
                        /\ heard'.last.kind = "resend"
                        /\ heard'.last.to = heard.last.url
             ELSE /\ pc = "done"
                  /\ ~result.success
                  /\ sent["resend"] = 0
                  /\ result.message = IF heard.last.can_resend THEN M_EmailLoopNoUrl
                                      ELSE M_EmailLoopDisallowed
       /\ sent'["resend"] <= 1
       /\ sent'["resend"] # sent["resend"] => pc = "resend"]_vars

\* C21: the resend POST went to the submissionUrl of the snapshot, once
C21_Witness ==
    /\ sent["resend"] = 1
    /\ heard.last.kind = "resend"
    /\ heard.last.to = Url_other
    /\ resend_email
    /\ pc = "snapEmail"

\* C22: the snapshot is polled at most max_polls times, and only after the
\* resend POST; a poll answered with a snapshot at docUpload ends the polling
\* and the docUpload POST is next; a poll answered otherwise with a snapshot
\* or a transport failure is followed by another poll while fewer than
\* max_polls were made, and after the last one verify() returns the timeout
\* failure without a docUpload POST, a PUT or a completion POST (an answer
\* that is no JSON object ends the run with the AttributeError at once)
C22_EmailPollBounded ==
    /\ sent["snapEmail"] <= max_polls
    /\ sent["snapEmail"] >= 1 => sent["resend"] = 1
    /\ heard.last.kind = "snapEmail" =>
          IF heard.last.step = S_docUpload THEN pc = "docUpload"
          ELSE IF raised = M_AttributeError THEN pc = "done" /\ ~result.success
          ELSE IF sent["snapEmail"] < max_polls THEN pc = "snapEmail"
          ELSE /\ pc = "done"
               /\ ~result.success
               /\ result.message = M_EmailTimeout
               /\ \A k \in {"docUpload", "snapFinal", "putPdf", "putPng", "complete"} :
                     sent[k] = 0
    /\ raised = M_EmailTimeout => sent["snapEmail"] = max_polls

\* C22: the last of max_polls polls still showed the emailLoop step and
\* verify() returned the timeout failure
C22_Witness ==
    /\ heard.last.kind = "snapEmail"
    /\ heard.last.step = S_emailLoop
    /\ sent["snapEmail"] = max_polls
    /\ result.message = M_EmailTimeout
    /\ pc = "done"

\* C23: the PDF and the PNG are each PUT at most once, the PNG only after the
\* PDF; a PUT of the PDF answered outside 200..299 or by a transport error
\* ends the run with the failure 'PDF Upload Failed' and no PUT of the PNG,
\* a PUT of the PNG so answered ends it with 'PNG Upload Failed', and the
\* transport error itself is never the outcome's message
C23_UploadsNeverRetried ==
    /\ sent["putPdf"] <= 1
    /\ sent["putPng"] <= sent["putPdf"]
    /\ heard.last.kind = "putPdf" =>
          IF heard.last.bucket = "success" THEN pc = "putPng"
          ELSE /\ pc = "done"
               /\ ~result.success
               /\ result.message = M_PdfUpload
               /\ raised = M_PdfUpload
               /\ sent["putPng"] = 0
    /\ heard.last.kind = "putPng" =>
          IF heard.last.bucket = "success" THEN pc = "complete"
          ELSE /\ pc = "done"
               /\ ~result.success
               /\ result.message = M_PngUpload
               /\ raised = M_PngUpload
               /\ sent["putPdf"] = 1
    /\ M_PdfUpload # M_PngUpload

\* C23: the PUT of the PDF met a transport error and verify() returned
\* 'PDF Upload Failed'
C23_Witness ==
    /\ heard.last.kind = "putPdf"
    /\ heard.last.bucket = "transient"
    /\ result.message = M_PdfUpload
    /\ sent["putPdf"] = 1
    /\ pc = "done"

(***************************************************************************)
(* The birth year and the discharge year of the military personal-info     *)
(* payload, src/k12/sheerid_verifier.py:242-252, as a function of the      *)
(* calendar year of datetime.date.today(): input is that year, output the  *)
(* years drawn so far.                                                      *)
(***************************************************************************)
\* the calendar years the clock is drawn from
FirstYear == 1995
LastYear == 2030

\* random.randint(a, b)
randint(a, b) == a .. b

\* a mutant of DischargeYears: the discharge may fall in the year of birth
DischargeYearsFromBirth(by, year) ==
    LET min_discharge_year == by
        max_discharge_year == year - 1
    IN  IF min_discharge_year >= max_discharge_year THEN {max_discharge_year}
        ELSE randint(min_discharge_year, max_discharge_year)

\* the values dy can take for the birth year by when today().year is year
DischargeYears(by, year) ==
    LET min_discharge_year == by + 18
        max_discharge_year == year - 1
    IN  IF min_discharge_year >= max_discharge_year THEN {max_discharge_year}
        ELSE randint(min_discharge_year, max_discharge_year)

InitPayload ==
    /\ pc = "payload"
    /\ input \in FirstYear .. LastYear
    /\ output = None
    /\ verification_id = None
    /\ resend_email = FALSE
    /\ heard = NothingHeard
    /\ loc = NoFrame
    /\ result = NoResult
    /\ raised = None
    /\ sent = [k \in Kinds |-> 0]
    /\ script = {}
    /\ canonical = "none"

\* by = random.randint(1960, 1985)
BirthYear ==
    /\ pc = "payload"
    /\ \E by \in randint(1960, 1985) : output' = [by |-> by, dy |-> 0]
    /\ pc' = "birth"
    /\ UNCHANGED <<input, verification_id, resend_email, loc, result, raised, sent, heard,
                   script, canonical>>

\* dy is drawn for the birth year and the clock's year
DischargeYear ==
    /\ pc = "birth"
    /\ \E dy \in DischargeYears(output.by, input) : output' = [output EXCEPT !.dy = dy]
    /\ pc' = "discharge"
    /\ UNCHANGED <<input, verification_id, resend_email, loc, result, raised, sent, heard,
                   script, canonical>>

NextPayload == BirthYear \/ DischargeYear

SpecPayload == InitPayload /\ [][NextPayload]_vars

\* C24, as claimed: for every birth year in 1960..1985 and every calendar
\* year, the discharge year drawn is at least the birth year plus 18 and at
\* most the year before the calendar year
C24_DischargeWithinBounds ==
    pc = "discharge" =>
        /\ output.by + 18 <= output.dy
        /\ output.dy <= input - 1

\* C24, amended: the discharge year drawn is at most the year before the
\* calendar year; it is at least the birth year plus 18 when that is not
\* after the year before the calendar year, and otherwise it is that
\* previous year, which lies before the birth year plus 18
C24_DischargeClampedToPreviousYear ==
    pc = "discharge" =>
        /\ output.by \in 1960 .. 1985
        /\ output.dy <= input - 1
        /\ IF output.by + 18 <= input - 1
           THEN output.by + 18 <= output.dy
           ELSE output.dy = input - 1 /\ output.dy < output.by + 18

\* C24: the birth year plus 18 is after the previous calendar year and the
\* discharge year drawn is that previous year
C24_Witness ==
    /\ pc = "discharge"
    /\ output.by + 18 > input - 1
    /\ output.dy = input - 1

\* C25: requests follow the order of the steps: nothing is sent before the
\* first personal-info POST; the SSO DELETE, the readiness snapshots and the
\* docUpload POST come only after a step-2 answer was taken as canonical, and
\* that answer had status 200 (of the first personal-info POST when it is the
\* canonical one, of a status POST before a canonical military answer); the
\* resend POST comes only after a readiness snapshot and the email polls only
\* after the resend POST; a PUT comes only after the one docUpload POST was
\* answered with at least two documents, the PNG only after the PDF; the
\* completion POST comes only after both PUTs were sent and neither failed
C25_RequestOrder ==
    /\ \A k \in Kinds \ {"teacher"} : (sent[k] >= 1 \/ pc = k) => sent["teacher"] = 1
    /\ \A k \in LaterRequests : (sent[k] >= 1 \/ pc = k) =>
          /\ canonical # "none"
          /\ canonical = "teacher" => heard.teacher = 200
          /\ canonical \in {"status", "secondary"} => heard.status_ok
    /\ (sent["resend"] >= 1 \/ pc = "resend") => sent["snapReady"] = 1
    /\ (sent["snapEmail"] >= 1 \/ pc = "snapEmail") => sent["resend"] = 1
    /\ (sent["docUpload"] >= 1 \/ pc = "docUpload") => sent["snapReady"] = 1
    /\ \A k \in {"putPdf", "putPng", "complete"} : (sent[k] >= 1 \/ pc = k) =>
          /\ sent["docUpload"] = 1
          /\ heard.targets >= 2
    /\ (sent["putPng"] >= 1 \/ pc = "putPng") => sent["putPdf"] = 1
    /\ (sent["complete"] >= 1 \/ pc = "complete") =>
          /\ sent["putPdf"] = 1
          /\ sent["putPng"] = 1
          /\ ~heard.put_failed

\* C25: the completion POST is next, after the military branch, the docUpload
\* answer with two documents and the two PUTs
C25_Witness ==
    /\ pc = "complete"
    /\ canonical = "secondary"
    /\ heard.targets = 2
    /\ sent["putPdf"] = 1
    /\ sent["putPng"] = 1
    /\ ~heard.put_failed

\* C26: when verify() has returned success true, the completion POST was
\* sent and its answer had a status in 200..299
C26_SuccessOnlyAfterCompletionAccepted ==
    (pc = "done" /\ result.success) =>
        /\ sent["complete"] = 1
        /\ heard.last.kind = "complete"
        /\ heard.last.bucket = "success"

\* every request is answered or fails: a run that can take a step takes one
FairSpec == Spec /\ WF_vars(Next)

\* the requests sent so far
Requests ==
    sent["teacher"] + sent["snapSel"] + sent["resubmit"] + sent["status"] + sent["snapMil"]
    + sent["secondary"] + sent["sso"] + sent["snapReady"] + sent["snapPoll"]
    + sent["resend"] + sent["snapEmail"] + sent["docUpload"] + sent["snapFinal"]
    + sent["putPdf"] + sent["putPng"] + sent["complete"]

\* the most requests of a run: the first personal-info POST, the snapshot and
\* the resubmission, max_attempts status POSTs each with its snapshot and
\* personal_attempts military personal-info POSTs, the SSO DELETE, the
\* readiness snapshot and its max_ready_polls polls, the resend POST and its
\* max_polls polls, the docUpload POST, the two PUTs and the completion POST
MaxRequests ==
    3 + max_attempts * (2 + personal_attempts) + 2 + max_ready_polls + 1 + max_polls + 4

\* C27: under every sequence of answers verify() eventually returns, and it
\* never sends more than MaxRequests requests: the status loop sends at most
\* max_attempts status POSTs, the military personal-info loop at most
\* personal_attempts POSTs for each of them, the readiness poll at most
\* max_ready_polls snapshots after the first and the email poll at most
\* max_polls
C27_Terminates ==
    /\ <>(pc = "done")
    /\ [](/\ Requests <= MaxRequests
          /\ sent["status"] <= max_attempts
          /\ sent["secondary"] <= personal_attempts * sent["status"]
          /\ sent["snapPoll"] <= max_ready_polls
          /\ sent["snapEmail"] <= max_polls)

\* C27: verify() returned after the most requests a run can send, with the
\* status loop, the military personal-info loop, the readiness poll and the
\* email poll all run to their last iteration
C27_Witness ==
    /\ pc = "done"
    /\ Requests = MaxRequests
    /\ sent["status"] = max_attempts
    /\ sent["secondary"] = max_attempts * personal_attempts
    /\ sent["snapPoll"] = max_ready_polls
    /\ sent["snapEmail"] = max_polls

\* C28: when the step-2 result is fixed and its currentStep is 'error',
\* whatever its status, verify() returns a failure whose message is
\* 'Step 2 Error: ' followed by the result's errorIds joined by ', ' (or by
\* 'Unknown error' when it has none), and no SSO DELETE, snapshot, resend,
\* docUpload POST, PUT or completion POST was sent; a military personal-info
\* answer whose currentStep is 'error' is not taken as the step-2 result
C28_ErrorStepIsFatal ==
    [][LET data == IF pc = "snapMil" THEN loc.status_data
                   ELSE [currentStep |-> heard'.last.step,
                         errorIds |-> heard'.last.errorIds]
       IN  /\ (canonical' # canonical /\ data.currentStep = S_error) =>
                 /\ pc' = "done"
                 /\ ~result'.success
                 /\ result'.message =
                        M_Step2Error \o
                        Join(IF data.errorIds = NoList THEN <<E_Unknown_error>>
                             ELSE data.errorIds, <<",", " ">>)
                 /\ \A k \in LaterRequests : sent'[k] = 0
           /\ (pc = "secondary" /\ heard'.last.kind = "secondary"
                   /\ heard'.last.step = S_error) => canonical' = canonical]_vars

\* C28: the first personal-info POST was answered 200 with currentStep 'error'
\* and two errorIds, and verify() returned the failure that lists them
C28_Witness ==
    /\ canonical = "teacher"
    /\ heard.teacher = 200
    /\ heard.last.kind = "teacher"
    /\ heard.last.step = S_error
    /\ heard.last.errorIds = <<E_invalidBirthDate, E_invalidStep>>
    /\ pc = "done"
    /\ ~result.success
    /\ StartsWith(result.message, M_Step2Error)
    /\ Contains(E_invalidBirthDate, result.message)

(***************************************************************************)
(* parse_verification_id applied twice, as main() would on its own output  *)
(***************************************************************************)
verifyVars ==
    <<verification_id, resend_email, loc, result, raised, sent, heard, script, canonical>>


InitParse ==
    /\ pc = "parse"
    /\ input \in ParseInputs
    /\ output = None
    /\ verification_id = None
    /\ resend_email = FALSE
    /\ heard = NothingHeard
    /\ loc = NoFrame
    /\ result = NoResult
    /\ raised = None
    /\ sent = [k \in Kinds |-> 0]
    /\ script = {}
    /\ canonical = "none"

\* main(): verification_id = K12Verifier.parse_verification_id(verification_id_input)
ParseUrl ==
    /\ pc = "parse"
    /\ output' = parse_verification_id(input)
    /\ pc' = IF output' = None THEN "invalid" ELSE "parsed"
    /\ UNCHANGED <<input, verifyVars>>

\* parse_verification_id applied to the id it returned
ParseId ==
    /\ pc = "parsed"
    /\ input' = output
    /\ output' = parse_verification_id(output)
    /\ pc' = "reparsed"
    /\ UNCHANGED verifyVars

NextParse == ParseUrl \/ ParseId

SpecParse == InitParse /\ [][NextParse]_vars

\* C10: parse_verification_id applied to an id it returned gives that id
\* back, whatever the length of the id
C10_Idempotent ==
    pc = "reparsed" => output = input

====
